---------------------------- MODULE Spec2Model ----------------------------
(***************************************************************************)
(* GradsCtlParser (nwpc_data/format/grads/grads_ctl.py): the keyword       *)
(* dispatcher, its handlers, the record index builder and the file-name    *)
(* heuristic, as a state machine over one parse() call.                    *)
(*                                                                         *)
(* A Python str is a sequence of one-character strings; positions are      *)
(* 0-based in the operators that model Python indexing and slicing.        *)
(* A float is modelled by an integer: the descriptors drawn below only     *)
(* hold integral numerals.  A pandas Timestamp is the record of its        *)
(* parsed calendar fields plus an offset in minutes; a Timedelta is a      *)
(* number of minutes.                                                      *)
(***************************************************************************)
EXTENDS Integers, Sequences, FiniteSets, TLC

(***************************************************************************)
(* Python str primitives                                                   *)
(***************************************************************************)
Digits == <<"0", "1", "2", "3", "4", "5", "6", "7", "8", "9">>

UpperCase == <<"A", "B", "C", "D", "E", "F", "G", "H", "I", "J", "K", "L", "M",
               "N", "O", "P", "Q", "R", "S", "T", "U", "V", "W", "X", "Y", "Z">>

LowerCase == <<"a", "b", "c", "d", "e", "f", "g", "h", "i", "j", "k", "l", "m",
               "n", "o", "p", "q", "r", "s", "t", "u", "v", "w", "x", "y", "z">>

\* 1-based position of c in the table t, 0 when absent
IndexIn(t, c) ==
    IF \E i \in 1..Len(t) : t[i] = c
    THEN CHOOSE i \in 1..Len(t) : t[i] = c
    ELSE 0

IsDigit(c) == IndexIn(Digits, c) > 0

DigitVal(c) == IndexIn(Digits, c) - 1

IsSpace(c) == c \in {" ", "\t", "\n"}

\* str.lower()
RECURSIVE Lower(_)
Lower(s) ==
    IF Len(s) = 0 THEN <<>>
    ELSE LET u == IndexIn(UpperCase, s[1])
         IN  <<IF u > 0 THEN LowerCase[u] ELSE s[1]>> \o Lower(Tail(s))

\* a slice bound as Python normalises it
Clamp(i, n) ==
    LET j == IF i < 0 THEN i + n ELSE i
    IN  IF j < 0 THEN 0 ELSE IF j > n THEN n ELSE j

\* s[a:b]
Slice(s, a, b) ==
    LET lo == Clamp(a, Len(s))
        hi == Clamp(b, Len(s))
    IN  IF lo >= hi THEN <<>> ELSE SubSeq(s, lo + 1, hi)

\* s[a:]
SliceFrom(s, a) == Slice(s, a, Len(s))

\* s.find(c): the 0-based position of the first c, -1 when there is none
Find(s, c) ==
    IF \E i \in 1..Len(s) : s[i] = c
    THEN (CHOOSE i \in 1..Len(s) : s[i] = c /\ \A j \in 1..(i - 1) : s[j] # c) - 1
    ELSE -1

\* s.startswith(p)
StartsWith(s, p) == Len(s) >= Len(p) /\ SubSeq(s, 1, Len(p)) = p

\* s.strip()
Strip(s) ==
    LET keep == {i \in 1..Len(s) : ~IsSpace(s[i])}
    IN  IF keep = {} THEN <<>>
        ELSE SubSeq(s, CHOOSE i \in keep : \A j \in keep : i <= j,
                       CHOOSE i \in keep : \A j \in keep : i >= j)

\* s.split(): the maximal runs of non-whitespace characters, in order
RECURSIVE SplitFrom(_, _)
SplitFrom(s, i) ==
    IF i > Len(s) THEN <<>>
    ELSE IF IsSpace(s[i]) THEN SplitFrom(s, i + 1)
    ELSE LET ends == {j \in i..Len(s) : j = Len(s) \/ IsSpace(s[j + 1])}
             e == CHOOSE j \in ends : \A k \in ends : j <= k
         IN  <<SubSeq(s, i, e)>> \o SplitFrom(s, e + 1)

Split(s) == SplitFrom(s, 1)

\* s.split(' '): cut at every single space, empty pieces kept
RECURSIVE SplitOnSpace(_)
SplitOnSpace(s) ==
    LET k == Find(s, " ")
    IN  IF k = -1 THEN <<s>>
        ELSE <<Slice(s, 0, k)>> \o SplitOnSpace(SliceFrom(s, k + 1))

\* " ".join(parts)
RECURSIVE Join(_)
Join(parts) ==
    IF Len(parts) = 0 THEN <<>>
    ELSE IF Len(parts) = 1 THEN parts[1]
    ELSE parts[1] \o <<" ">> \o Join(Tail(parts))

AllDigits(s) == \A i \in 1..Len(s) : IsDigit(s[i])

RECURSIVE DecimalValue(_)
DecimalValue(s) ==
    IF Len(s) = 0 THEN 0
    ELSE 10 * DecimalValue(SubSeq(s, 1, Len(s) - 1)) + DigitVal(s[Len(s)])

\* int(s) of a token: an optional sign and at least one digit, else ValueError
IntOk(s) ==
    LET body == IF Len(s) > 0 /\ s[1] \in {"-", "+"} THEN Tail(s) ELSE s
    IN  Len(body) > 0 /\ AllDigits(body)

IntOf(s) ==
    IF s[1] = "-" THEN 0 - DecimalValue(Tail(s))
    ELSE IF s[1] = "+" THEN DecimalValue(Tail(s))
    ELSE DecimalValue(s)

\* float(s) accepts surrounding whitespace; its value is kept integral here
FloatOk(s) == IntOk(Strip(s))

FloatOf(s) == IntOf(Strip(s))

\* re.match(r"[0-9]{n}", s): a match at the start, whatever follows
MatchDigits(s, n) == Len(s) >= n /\ AllDigits(SubSeq(s, 1, n))


(***************************************************************************)
(* pandas: to_datetime with a format, Timedelta                            *)
(***************************************************************************)
None == [type |-> "None"]

MonthNames == << <<"j", "a", "n">>, <<"f", "e", "b">>, <<"m", "a", "r">>,
                 <<"a", "p", "r">>, <<"m", "a", "y">>, <<"j", "u", "n">>,
                 <<"j", "u", "l">>, <<"a", "u", "g">>, <<"s", "e", "p">>,
                 <<"o", "c", "t">>, <<"n", "o", "v">>, <<"d", "e", "c">> >>

IsLeap(y) == (y % 4 = 0 /\ y % 100 # 0) \/ y % 400 = 0

DaysInMonth(y, m) ==
    IF m = 2 THEN (IF IsLeap(y) THEN 29 ELSE 28)
    ELSE IF m \in {4, 6, 9, 11} THEN 30 ELSE 31

\* the calendar fields name a time a Timestamp can hold
ValidFields(y, m, d, h) ==
    /\ y \in 1678..2261
    /\ m \in 1..12
    /\ d \in 1..DaysInMonth(y, m)
    /\ h \in 0..23

Timestamp(y, m, d, h) ==
    [type |-> "Timestamp", year |-> y, month |-> m, day |-> d, hour |-> h, plus |-> 0]

Timedelta(mins) == [type |-> "Timedelta", minutes |-> mins]

\* Timestamp + Timedelta * i
TimePlus(t, delta, i) == [t EXCEPT !.plus = t.plus + delta.minutes * i]

\* pd.to_datetime(s, format="%Y%m%d%H") of ten characters: None for ValueError
ToDatetimeYmdH(s) ==
    IF Len(s) = 10 /\ AllDigits(s)
       /\ ValidFields(DecimalValue(SubSeq(s, 1, 4)), DecimalValue(SubSeq(s, 5, 6)),
                      DecimalValue(SubSeq(s, 7, 8)), DecimalValue(SubSeq(s, 9, 10)))
    THEN Timestamp(DecimalValue(SubSeq(s, 1, 4)), DecimalValue(SubSeq(s, 5, 6)),
                   DecimalValue(SubSeq(s, 7, 8)), DecimalValue(SubSeq(s, 9, 10)))
    ELSE None

\* pd.to_datetime(s, format="%Hz%d%b%Y") of twelve characters: None for ValueError
ToDatetimeHzdbY(s) ==
    IF /\ Len(s) = 12
       /\ AllDigits(SubSeq(s, 1, 2)) /\ s[3] = "z" /\ AllDigits(SubSeq(s, 4, 5))
       /\ IndexIn(MonthNames, SubSeq(s, 6, 8)) > 0 /\ AllDigits(SubSeq(s, 9, 12))
       /\ ValidFields(DecimalValue(SubSeq(s, 9, 12)), IndexIn(MonthNames, SubSeq(s, 6, 8)),
                      DecimalValue(SubSeq(s, 4, 5)), DecimalValue(SubSeq(s, 1, 2)))
    THEN Timestamp(DecimalValue(SubSeq(s, 9, 12)), IndexIn(MonthNames, SubSeq(s, 6, 8)),
                   DecimalValue(SubSeq(s, 4, 5)), DecimalValue(SubSeq(s, 1, 2)))
    ELSE None


(***************************************************************************)
(* State                                                                   *)
(***************************************************************************)
VARIABLES
    file_name,      \* base name of the descriptor file handed to parse()
    file_lines,     \* its lines as readlines() returns them
    ctl_file_path,  \* GradsCtlParser.ctl_file_path
    ctl_file_lines, \* GradsCtlParser.ctl_file_lines
    cur_no,         \* GradsCtlParser.cur_no, the shared line cursor
    grads_ctl,      \* GradsCtlParser.grads_ctl, the document being built
    pc,             \* "new", "scan" (the while loop of parse), "done", "error"
    error,          \* the exception that ended the parse, "" when none
    dispatched,     \* history: cursor positions the while loop examined, in order
    consumed,       \* history: positions a handler read after advancing the cursor
    gen_calls,      \* history: cursor positions at which _generate_records was entered
    built           \* history: the tdef and zdef held at the last completed _generate_records

vars == <<file_name, file_lines, ctl_file_path, ctl_file_lines, cur_no, grads_ctl,
          pc, error, dispatched, consumed, gen_calls, built>>

\* GradsCtl.__init__ (local_endian, the byte order of the host, is left out)
GradsCtl ==
    [dset |-> None, title |-> <<>>, options |-> <<>>, data_endian |-> "little",
     yrev |-> FALSE, undef |-> None, start_time |-> None, forecast_time |-> None,
     xdef |-> None, ydef |-> None, zdef |-> None, tdef |-> None,
     vars |-> <<>>, record |-> <<>>]

\* the keys of GradsCtlParser.parser_mapper
parser_mapper ==
    { <<"c", "t", "l", "_", "f", "i", "l", "e", "_", "n", "a", "m", "e">>,
      <<"d", "s", "e", "t">>, <<"o", "p", "t", "i", "o", "n", "s">>,
      <<"t", "i", "t", "l", "e">>, <<"u", "n", "d", "e", "f">>,
      <<"x", "d", "e", "f">>, <<"y", "d", "e", "f">>, <<"z", "d", "e", "f">>,
      <<"t", "d", "e", "f">>, <<"v", "a", "r", "s">> }

(***************************************************************************)
(* What a handler leaves behind: the document, the cursor, the exception   *)
(* it raised ("" when it returned), the positions it read after advancing  *)
(* the cursor, and the cursor positions at which it entered                *)
(* _generate_records.                                                      *)
(***************************************************************************)
Outcome(err, doc, cur, read, gen) ==
    [err |-> err, doc |-> doc, cur |-> cur, read |-> read, gen |-> gen]

Return(doc) == Outcome("", doc, cur_no, <<>>, <<>>)

Raise(err) == Outcome(err, grads_ctl, cur_no, <<>>, <<>>)

cur_line == ctl_file_lines[cur_no + 1]

\* cur_line[0:cur_line.find(' ')] in parse
first_word == Slice(cur_line, 0, Find(cur_line, " "))

(***************************************************************************)
(* _parse_ctl_file_name                                                    *)
(***************************************************************************)
PostPrefix == <<"p", "o", "s", "t", ".", "c", "t", "l", "_">>

ModelPrefix == <<"m", "o", "d", "e", "l", ".", "c", "t", "l", "_">>

\* re.match(r"[0-9]{10}_[0-9]{3}", s)
MatchGfs(s) ==
    /\ MatchDigits(s, 10)
    /\ Len(s) >= 14
    /\ s[11] = "_"
    /\ AllDigits(SubSeq(s, 12, 14))

\* the two assignments of a matched branch, hours_text being the text given to int()
SetTimes(name_tail, hours_text) ==
    IF ToDatetimeYmdH(Slice(name_tail, 0, 10)) = None THEN Raise("ValueError")
    ELSE IF ~IntOk(hours_text)
    THEN Outcome("ValueError",
                 [grads_ctl EXCEPT !.start_time = ToDatetimeYmdH(Slice(name_tail, 0, 10))],
                 cur_no, <<>>, <<>>)
    ELSE Return([grads_ctl EXCEPT
                    !.start_time = ToDatetimeYmdH(Slice(name_tail, 0, 10)),
                    !.forecast_time = Timedelta(60 * IntOf(hours_text))])

\* file_name[11:14] of the GRAPES MESO branch
MesoHours(name_tail) == Slice(name_tail, 11, 14)

\* file_name[12:] of the GRAPES GFS branch
GfsHours(name_tail) == SliceFrom(name_tail, 12)

_parse_ctl_file_name ==
    LET ctl_file_name == ctl_file_path.name
        file_name_tail == SliceFrom(ctl_file_name, Find(ctl_file_name, "_") + 1)
    IN  IF grads_ctl.start_time = None /\ grads_ctl.forecast_time = None
        THEN IF StartsWith(ctl_file_name, PostPrefix) \/ StartsWith(ctl_file_name, ModelPrefix)
             THEN IF MatchDigits(file_name_tail, 15)
                  THEN SetTimes(file_name_tail, MesoHours(file_name_tail))
                  ELSE IF MatchGfs(file_name_tail)
                  THEN SetTimes(file_name_tail, GfsHours(file_name_tail))
                  ELSE Return(grads_ctl)
             ELSE Return(grads_ctl)
        ELSE Return(grads_ctl)

(***************************************************************************)
(* _parse_dset, _parse_options, _parse_title, _parse_undef                 *)
(***************************************************************************)
_parse_dset ==
    LET dset == Strip(SliceFrom(cur_line, 4))
    IN  IF Len(dset) = 0 THEN Raise("IndexError")
        ELSE IF dset[1] = "^"
        THEN Return([grads_ctl EXCEPT !.dset =
                        [type |-> "Path", parent |-> ctl_file_path.parent,
                         name |-> SliceFrom(dset, 1)]])
        ELSE Return([grads_ctl EXCEPT !.dset = [type |-> "str", value |-> dset]])

BigEndian == <<"b", "i", "g", "_", "e", "n", "d", "i", "a", "n">>

LittleEndian == <<"l", "i", "t", "t", "l", "e", "_", "e", "n", "d", "i", "a", "n">>

Yrev == <<"y", "r", "e", "v">>

_parse_options ==
    LET options == SplitOnSpace(Strip(SliceFrom(cur_line, 7)))
        endian == {i \in 1..Len(options) : options[i] \in {BigEndian, LittleEndian}}
        last == CHOOSE i \in endian : \A j \in endian : j <= i
    IN  Return([grads_ctl EXCEPT
                   !.options = @ \o options,
                   !.data_endian = IF endian = {} THEN @
                                   ELSE IF options[last] = BigEndian THEN "big"
                                   ELSE "little",
                   !.yrev = IF \E i \in 1..Len(options) : options[i] = Yrev
                            THEN TRUE ELSE @])

_parse_title == Return([grads_ctl EXCEPT !.title = Strip(SliceFrom(cur_line, 5))])

_parse_undef ==
    LET undef == Strip(SliceFrom(cur_line, 5))
    IN  IF ~FloatOk(undef) THEN Raise("ValueError")
        ELSE Return([grads_ctl EXCEPT !.undef = [type |-> "float", value |-> FloatOf(undef)]])


(***************************************************************************)
(* _parse_dimension, _parse_linear_dimension, _parse_levels_dimension      *)
(***************************************************************************)
Xdef == <<"x", "d", "e", "f">>

Ydef == <<"y", "d", "e", "f">>

Zdef == <<"z", "d", "e", "f">>

Linear == <<"l", "i", "n", "e", "a", "r">>

Levels == <<"l", "e", "v", "e", "l", "s">>

\* setattr(self.grads_ctl, dim_name, value)
SetDimension(doc, dim_name, value) ==
    IF dim_name = Xdef THEN [doc EXCEPT !.xdef = value]
    ELSE IF dim_name = Ydef THEN [doc EXCEPT !.ydef = value]
    ELSE IF dim_name = Zdef THEN [doc EXCEPT !.zdef = value]
    ELSE doc

\* [float(l) for l in tokens]
RECURSIVE Floats(_)
Floats(tokens) ==
    IF Len(tokens) = 0 THEN <<>> ELSE <<FloatOf(tokens[1])>> \o Floats(Tail(tokens))

\* [start + step * n for n in range(count)]
RECURSIVE LinearValues(_, _, _)
LinearValues(start, step, count) ==
    IF count <= 0 THEN <<>>
    ELSE LinearValues(start, step, count - 1) \o <<start + step * (count - 1)>>

_parse_linear_dimension(dim_name, tokens) ==
    IF Len(tokens) < 4 THEN Raise("Exception")
    ELSE IF ~IntOk(tokens[2]) \/ ~FloatOk(tokens[4]) THEN Raise("ValueError")
    ELSE IF Len(tokens) < 5 THEN Raise("IndexError")
    ELSE IF ~FloatOk(tokens[5]) THEN Raise("ValueError")
    ELSE Return(SetDimension(grads_ctl, dim_name,
                   [type |-> "linear", count |-> IntOf(tokens[2]),
                    start |-> FloatOf(tokens[4]), step |-> FloatOf(tokens[5]),
                    values |-> LinearValues(FloatOf(tokens[4]), FloatOf(tokens[5]),
                                            IntOf(tokens[2]))]))

\* the while loop of _parse_levels_dimension, entered with i = Len(levels)
RECURSIVE LevelsLoop(_, _, _, _, _)
LevelsLoop(dim_name, count, levels, cur, read) ==
    IF Len(levels) >= count
    THEN Outcome("", SetDimension(grads_ctl, dim_name,
                        [type |-> "levels", count |-> count, values |-> levels]),
                 cur, read, <<>>)
    ELSE IF cur + 1 >= Len(ctl_file_lines)
    THEN Outcome("IndexError", grads_ctl, cur + 1, read, <<>>)
    ELSE IF ~FloatOk(ctl_file_lines[cur + 2])
    THEN Outcome("ValueError", grads_ctl, cur + 1, read \o <<cur + 1>>, <<>>)
    ELSE LevelsLoop(dim_name, count, levels \o <<FloatOf(ctl_file_lines[cur + 2])>>,
                    cur + 1, read \o <<cur + 1>>)

_parse_levels_dimension(dim_name, tokens) ==
    IF ~IntOk(tokens[2]) THEN Raise("ValueError")
    ELSE IF \E i \in 4..Len(tokens) : ~FloatOk(tokens[i]) THEN Raise("ValueError")
    ELSE LevelsLoop(dim_name, IntOf(tokens[2]), Floats(SliceFrom(tokens, 3)), cur_no, <<>>)

_parse_dimension ==
    LET tokens == Split(Lower(cur_line))
    IN  IF Len(tokens) < 3 THEN Raise("IndexError")
        ELSE IF tokens[3] = Linear THEN _parse_linear_dimension(tokens[1], tokens)
        ELSE IF tokens[3] = Levels THEN _parse_levels_dimension(tokens[1], tokens)
        ELSE Raise("TypeError")

(***************************************************************************)
(* _parse_tdef, _parse_start_time, _parse_increment_time                   *)
(***************************************************************************)
\* None when the call raises
_parse_start_time(start_string) ==
    IF Len(start_string) < 4 THEN None
    ELSE IF start_string[4] = ":" THEN None
    ELSE IF Len(start_string) = 12 THEN ToDatetimeHzdbY(Lower(start_string))
    ELSE None

\* the exception _parse_start_time raises
StartTimeError(start_string) ==
    IF Len(start_string) < 4 THEN "IndexError"
    ELSE IF start_string[4] = ":" \/ Len(start_string) # 12 THEN "TypeError"
    ELSE "ValueError"

\* None when the call raises
_parse_increment_time(increment_string) ==
    LET vv == Slice(increment_string, 0, -2)
        kk == SliceFrom(increment_string, -2)
    IN  IF ~IntOk(vv) THEN None
        ELSE IF kk = <<"m", "n">> THEN Timedelta(IntOf(vv))
        ELSE IF kk = <<"h", "r">> THEN Timedelta(60 * IntOf(vv))
        ELSE IF kk = <<"d", "y">> THEN Timedelta(1440 * IntOf(vv))
        ELSE None

\* the exception _parse_increment_time raises
IncrementError(increment_string) ==
    IF ~IntOk(Slice(increment_string, 0, -2)) THEN "ValueError" ELSE "TypeError"

\* [start_date + time_step * i for i in range(count)]
RECURSIVE TimeValues(_, _, _)
TimeValues(start_date, time_step, count) ==
    IF count <= 0 THEN <<>>
    ELSE TimeValues(start_date, time_step, count - 1)
         \o <<TimePlus(start_date, time_step, count - 1)>>

_parse_tdef ==
    LET parts == Split(Strip(cur_line))
    IN  IF Len(parts) < 3 THEN Raise("IndexError")
        ELSE IF parts[3] # Linear \/ Len(parts) # 5 THEN Raise("AssertionError")
        ELSE IF ~IntOk(parts[2]) THEN Raise("ValueError")
        ELSE IF _parse_start_time(parts[4]) = None THEN Raise(StartTimeError(parts[4]))
        ELSE IF _parse_increment_time(parts[5]) = None THEN Raise(IncrementError(parts[5]))
        ELSE Return([grads_ctl EXCEPT !.tdef =
                        [type |-> "linear", count |-> IntOf(parts[2]),
                         start |-> _parse_start_time(parts[4]),
                         step |-> _parse_increment_time(parts[5]),
                         values |-> TimeValues(_parse_start_time(parts[4]),
                                               _parse_increment_time(parts[5]),
                                               IntOf(parts[2]))]])


(***************************************************************************)
(* _parse_vars, _parse_variables, _generate_records                        *)
(***************************************************************************)
\* the for loop of _parse_variables with `left` iterations to go
RECURSIVE VariablesLoop(_, _, _, _)
VariablesLoop(left, var_list, cur, read) ==
    IF left <= 0
    THEN Outcome("", [grads_ctl EXCEPT !.vars = var_list], cur, read, <<>>)
    ELSE IF cur + 1 >= Len(ctl_file_lines)
    THEN Outcome("IndexError", grads_ctl, cur + 1, read, <<>>)
    ELSE LET parts == Split(Strip(ctl_file_lines[cur + 2]))
         IN  IF Len(parts) < 2
             THEN Outcome("IndexError", grads_ctl, cur + 1, read \o <<cur + 1>>, <<>>)
             ELSE IF ~IntOk(parts[2])
             THEN Outcome("ValueError", grads_ctl, cur + 1, read \o <<cur + 1>>, <<>>)
             ELSE IF Len(parts) < 3
             THEN Outcome("IndexError", grads_ctl, cur + 1, read \o <<cur + 1>>, <<>>)
             ELSE VariablesLoop(left - 1,
                      var_list \o <<[name |-> parts[1], levels |-> IntOf(parts[2]),
                                     units |-> parts[3],
                                     description |-> Join(SliceFrom(parts, 3))]>>,
                      cur + 1, read \o <<cur + 1>>)

\* _parse_variables reading ahead of a cursor it does not move
ParseVariablesCursorKept ==
    LET parts == Split(Strip(cur_line))
    IN  IF Len(parts) # 2 THEN Raise("AssertionError")
        ELSE IF ~IntOk(parts[2]) THEN Raise("ValueError")
        ELSE [VariablesLoop(IntOf(parts[2]), <<>>, cur_no, <<>>) EXCEPT !.cur = cur_no]

_parse_variables ==
    LET parts == Split(Strip(cur_line))
    IN  IF Len(parts) # 2 THEN Raise("AssertionError")
        ELSE IF ~IntOk(parts[2]) THEN Raise("ValueError")
        ELSE VariablesLoop(IntOf(parts[2]), <<>>, cur_no, <<>>)

\* the counter restarted at every entry
RecordStateCounterLost(record_list, record_index, err) ==
    [record_list |-> record_list, record_index |-> 0, err |-> err]

\* the local state of _generate_records: the list, the counter, the exception
RecordState(record_list, record_index, err) ==
    [record_list |-> record_list, record_index |-> record_index, err |-> err]

\* the level read one position off
LevelValueOffByOne(zdef, level_index) ==
    zdef.values[IF level_index = 0 THEN 1 ELSE level_index]

\* a_level = self.grads_ctl.zdef["values"][level_index]
LevelValue(zdef, level_index) == zdef.values[level_index + 1]

SingleRecord(a_var_record, valid_time, record_index) ==
    [name |-> a_var_record.name, level_type |-> "single", level |-> 0,
     level_index |-> 0, valid_time |-> valid_time, units |-> a_var_record.units,
     description |-> a_var_record.description, record_index |-> record_index]

MultiRecord(a_var_record, valid_time, a_level, level_index, record_index) ==
    [name |-> a_var_record.name, level_type |-> "multi", level |-> a_level,
     level_index |-> level_index, valid_time |-> valid_time,
     units |-> a_var_record.units, description |-> a_var_record.description,
     record_index |-> record_index]

\* for level_index in range(0, a_var_record["levels"])
RECURSIVE LevelLoop(_, _, _, _, _)
LevelLoop(doc, valid_time, a_var_record, level_index, st) ==
    IF st.err # "" \/ level_index >= a_var_record.levels THEN st
    ELSE IF doc.zdef = None THEN [st EXCEPT !.err = "TypeError"]
    ELSE IF level_index >= Len(doc.zdef.values) THEN [st EXCEPT !.err = "IndexError"]
    ELSE LevelLoop(doc, valid_time, a_var_record, level_index + 1,
             RecordState(st.record_list
                            \o <<MultiRecord(a_var_record, valid_time,
                                             LevelValue(doc.zdef, level_index),
                                             level_index, st.record_index)>>,
                         st.record_index + 1, ""))

\* for a_var_record in self.grads_ctl.vars, from the j-th on
RECURSIVE VarLoop(_, _, _, _)
VarLoop(doc, valid_time, j, st) ==
    IF st.err # "" \/ j > Len(doc.vars) THEN st
    ELSE IF doc.vars[j].levels = 0
    THEN VarLoop(doc, valid_time, j + 1,
             RecordState(st.record_list
                            \o <<SingleRecord(doc.vars[j], valid_time, st.record_index)>>,
                         st.record_index + 1, ""))
    ELSE VarLoop(doc, valid_time, j + 1, LevelLoop(doc, valid_time, doc.vars[j], 0, st))

\* for valid_time in self.grads_ctl.tdef["values"], from the i-th on
RECURSIVE TimeLoop(_, _, _)
TimeLoop(doc, i, st) ==
    IF st.err # "" \/ i > Len(doc.tdef.values) THEN st
    ELSE TimeLoop(doc, i + 1, VarLoop(doc, doc.tdef.values[i], 1, st))

\* the record list of doc, or the exception raised while building it
_generate_records(doc) ==
    IF doc.tdef = None THEN RecordState(<<>>, 0, "TypeError")
    ELSE TimeLoop(doc, 1, RecordState(<<>>, 0, ""))

\* _parse_vars without its call of _generate_records
ParseVarsNoRecords == _parse_variables

_parse_vars ==
    LET parsed == _parse_variables
        st == _generate_records(parsed.doc)
    IN  IF parsed.err # "" THEN parsed
        ELSE Outcome(st.err,
                     IF st.err = "" THEN [parsed.doc EXCEPT !.record = st.record_list]
                     ELSE parsed.doc,
                     parsed.cur, parsed.read, <<parsed.cur>>)


(***************************************************************************)
(* The descriptors and file names parse() is run on                        *)
(***************************************************************************)
\* the descriptors parsed under a plain name hold at most MaxBlocks core blocks
MaxBlocks == 4

\* the descriptors parsed under every file name hold at most MaxShort blocks
MaxShort == 1

\* dset ^f
LineDset ==
    <<"d", "s", "e", "t", " ", "^", "f", "\n">>

\* title t w
LineTitle ==
    <<"t", "i", "t", "l", "e", " ", "t", " ", "w", "\n">>

\* options yrev big_endian
LineOptions ==
    <<"o", "p", "t", "i", "o", "n", "s", " ", "y", "r", "e", "v", " ", "b",
      "i", "g", "_", "e", "n", "d", "i", "a", "n", "\n">>

\* undef -9
LineUndef ==
    <<"u", "n", "d", "e", "f", " ", "-", "9", "\n">>

\* xdef 2 linear 0 1
LineXdef ==
    <<"x", "d", "e", "f", " ", "2", " ", "l", "i", "n", "e", "a", "r", " ",
      "0", " ", "1", "\n">>

\* ydef 1 linear 5 5
LineYdef ==
    <<"y", "d", "e", "f", " ", "1", " ", "l", "i", "n", "e", "a", "r", " ",
      "5", " ", "5", "\n">>

\* tdef 1 linear 00z03aug2021 360mn
LineTdef1 ==
    <<"t", "d", "e", "f", " ", "1", " ", "l", "i", "n", "e", "a", "r", " ",
      "0", "0", "z", "0", "3", "a", "u", "g", "2", "0", "2", "1", " ", "3",
      "6", "0", "m", "n", "\n">>

\* tdef 2 linear 12z01jan2020 6hr
LineTdef2 ==
    <<"t", "d", "e", "f", " ", "2", " ", "l", "i", "n", "e", "a", "r", " ",
      "1", "2", "z", "0", "1", "j", "a", "n", "2", "0", "2", "0", " ", "6",
      "h", "r", "\n">>

\* tdef 0 linear 00z03aug2021 1dy
LineTdef0 ==
    <<"t", "d", "e", "f", " ", "0", " ", "l", "i", "n", "e", "a", "r", " ",
      "0", "0", "z", "0", "3", "a", "u", "g", "2", "0", "2", "1", " ", "1",
      "d", "y", "\n">>

\* zdef 2 levels 1000 850
LineZdefInline ==
    <<"z", "d", "e", "f", " ", "2", " ", "l", "e", "v", "e", "l", "s", " ",
      "1", "0", "0", "0", " ", "8", "5", "0", "\n">>

\* zdef 2 levels 500
LineZdefSplit ==
    <<"z", "d", "e", "f", " ", "2", " ", "l", "e", "v", "e", "l", "s", " ",
      "5", "0", "0", "\n">>

\* zdef 2 levels
LineZdefBare ==
    <<"z", "d", "e", "f", " ", "2", " ", "l", "e", "v", "e", "l", "s", "\n">>

\* zdef 1 levels 7 8
LineZdefOver ==
    <<"z", "d", "e", "f", " ", "1", " ", "l", "e", "v", "e", "l", "s", " ",
      "7", " ", "8", "\n">>

\* ZDEF 2 levels 1000 850
LineZdefUpper ==
    <<"Z", "D", "E", "F", " ", "2", " ", "l", "e", "v", "e", "l", "s", " ",
      "1", "0", "0", "0", " ", "8", "5", "0", "\n">>

\*    300
LineLevel300 ==
    <<" ", " ", " ", "3", "0", "0", "\n">>

\* 20
LineLevel20 ==
    <<"2", "0", "\n">>

\* 10
LineLevel10 ==
    <<"1", "0", "\n">>

\* vars 2
LineVars2 ==
    <<"v", "a", "r", "s", " ", "2", "\n">>

\* vars 1
LineVars1 ==
    <<"v", "a", "r", "s", " ", "1", "\n">>

\*   tmp 2 k air temperature
LineVarTmp ==
    <<" ", " ", "t", "m", "p", " ", "2", " ", "k", " ", "a", "i", "r", " ",
      "t", "e", "m", "p", "e", "r", "a", "t", "u", "r", "e", "\n">>

\*   pres 0 pa
LineVarPres ==
    <<" ", " ", "p", "r", "e", "s", " ", "0", " ", "p", "a", "\n">>

\* title 0 x
LineVarTitle ==
    <<"t", "i", "t", "l", "e", " ", "0", " ", "x", "\n">>

\* endvars
LineEndvars ==
    <<"e", "n", "d", "v", "a", "r", "s", "\n">>

\* titles
LineTitles ==
    <<"t", "i", "t", "l", "e", "s", "\n">>

\* ctl_file_name x
LineCtlFileName ==
    <<"c", "t", "l", "_", "f", "i", "l", "e", "_", "n", "a", "m", "e", " ",
      "x", "\n">>

\* zdef 1 levels 7
LineZdefShort ==
    <<"z", "d", "e", "f", " ", "1", " ", "l", "e", "v", "e", "l", "s", " ",
      "7", "\n">>

\* a block is a directive with the lines that belong to it; the blocks that
\* decide the record index
CoreBlocks ==
    { <<LineTdef1>>, <<LineTdef2>>, <<LineTdef0>>,
      <<LineZdefInline>>,
      <<LineZdefSplit, LineLevel300>>,
      <<LineZdefShort>>,
      <<LineVars2, LineVarTmp, LineVarPres, LineEndvars>>,
      <<LineVars1, LineVarTitle>> }

Blocks ==
    CoreBlocks
    \cup { <<LineDset, LineTitle, LineOptions, LineUndef, LineXdef, LineYdef>>,
           <<LineZdefBare, LineLevel20, LineLevel10>>,
           <<LineZdefOver>>,
           <<LineZdefUpper>>,
           <<LineEndvars>>,
           <<LineTitles>>,
           <<LineCtlFileName>> }

\* the descriptors of at most n blocks
RECURSIVE DescriptorsOf(_, _)
DescriptorsOf(blocks, n) ==
    IF n = 0 THEN {<<>>}
    ELSE DescriptorsOf(blocks, n - 1)
         \cup {d \o b : d \in DescriptorsOf(blocks, n - 1), b \in blocks}

NameOther ==
    <<"a", ".", "c", "t", "l", "_">>

Date2014081112 ==
    <<"2", "0", "1", "4", "0", "8", "1", "1", "1", "2">>

Date2014130112 ==
    <<"2", "0", "1", "4", "1", "3", "0", "1", "1", "2">>

Date20140811 ==
    <<"2", "0", "1", "4", "0", "8", "1", "1">>

\* the lead-hours blocks tried
LeadBlocks ==
    { <<"0", "0", "1">>, <<"0", "2", "4">>, <<"0", "9", "9">>,
      <<"1", "0", "0">>, <<"1", "2", "0">>, <<"9", "9", "9">> }

\* what follows the issuance-time digits
NameRests ==
    {<<"_">> \o d : d \in LeadBlocks}
    \cup { <<"0", "2", "9", "0", "0">>, <<"_", "1">>, <<>> }

FileNames ==
    { p \o d \o r \o t :
        p \in {PostPrefix, ModelPrefix, NameOther},
        d \in {Date2014081112, Date2014130112, Date20140811},
        r \in NameRests,
        t \in {<<>>, <<"x">>} }

\* the name the longer descriptors are parsed under
PlainName == PostPrefix \o Date2014081112 \o <<"_", "0", "0", "1">>

(***************************************************************************)
(* parse()                                                                 *)
(***************************************************************************)
Init ==
    /\ \/ file_name = PlainName /\ file_lines \in DescriptorsOf(CoreBlocks, MaxBlocks)
       \/ file_name \in FileNames /\ file_lines \in DescriptorsOf(Blocks, MaxShort)
    /\ ctl_file_path = None
    /\ ctl_file_lines = <<>>
    /\ cur_no = -1
    /\ grads_ctl = GradsCtl
    /\ pc = "new"
    /\ error = ""
    /\ dispatched = <<>>
    /\ consumed = <<>>
    /\ gen_calls = <<>>
    /\ built = None

\* [l.strip() for l in lines]
RECURSIVE StripAll(_)
StripAll(lines) ==
    IF Len(lines) = 0 THEN <<>> ELSE <<Strip(lines[1])>> \o StripAll(Tail(lines))

set_ctl_file_path ==
    /\ pc = "new"
    /\ ctl_file_path' = [type |-> "Path", parent |-> "dir", name |-> file_name]
    /\ ctl_file_lines' = StripAll(file_lines)
    /\ cur_no' = 0
    /\ pc' = "scan"
    /\ UNCHANGED <<file_name, file_lines, grads_ctl, error, dispatched, consumed,
                   gen_calls, built>>

InLoop == pc = "scan" /\ cur_no < Len(ctl_file_lines)

\* the effect of the handler's outcome, then `self.cur_no += 1` when it returned
Handled(out) ==
    /\ grads_ctl' = out.doc
    /\ error' = out.err
    /\ pc' = IF out.err = "" THEN "scan" ELSE "error"
    /\ cur_no' = IF out.err = "" THEN out.cur + 1 ELSE out.cur
    /\ dispatched' = Append(dispatched, cur_no)
    /\ consumed' = consumed \o out.read
    /\ gen_calls' = gen_calls \o out.gen
    /\ built' = IF out.err = "" /\ out.gen # <<>>
                THEN [type |-> "built", tdef |-> out.doc.tdef, zdef |-> out.doc.zdef]
                ELSE built
    /\ UNCHANGED <<file_name, file_lines, ctl_file_path, ctl_file_lines>>

\* first_word.lower() is no key of parser_mapper
SkipLine ==
    /\ InLoop
    /\ Lower(first_word) \notin parser_mapper
    /\ Handled(Return(grads_ctl))

\* first_word.lower() is a key and first_word is not: parser_mapper[first_word]
LookupFails ==
    /\ InLoop
    /\ Lower(first_word) \in parser_mapper
    /\ first_word \notin parser_mapper
    /\ Handled(Raise("KeyError"))

Dispatch(key, out) ==
    /\ InLoop
    /\ first_word = key
    /\ Handled(out)

DispatchCtlFileName ==
    Dispatch(<<"c", "t", "l", "_", "f", "i", "l", "e", "_", "n", "a", "m", "e">>,
             _parse_ctl_file_name)

DispatchDset == Dispatch(<<"d", "s", "e", "t">>, _parse_dset)

DispatchOptions == Dispatch(<<"o", "p", "t", "i", "o", "n", "s">>, _parse_options)

DispatchTitle == Dispatch(<<"t", "i", "t", "l", "e">>, _parse_title)

DispatchUndef == Dispatch(<<"u", "n", "d", "e", "f">>, _parse_undef)

DispatchDimension ==
    /\ InLoop
    /\ first_word \in {Xdef, Ydef, Zdef}
    /\ Handled(_parse_dimension)

DispatchTdef == Dispatch(<<"t", "d", "e", "f">>, _parse_tdef)

DispatchVars == Dispatch(<<"v", "a", "r", "s">>, _parse_vars)

\* the loop is over: self._parse_ctl_file_name(), return self.grads_ctl
Finish ==
    /\ pc = "scan"
    /\ cur_no >= Len(ctl_file_lines)
    /\ grads_ctl' = _parse_ctl_file_name.doc
    /\ error' = _parse_ctl_file_name.err
    /\ pc' = IF _parse_ctl_file_name.err = "" THEN "done" ELSE "error"
    /\ UNCHANGED <<file_name, file_lines, ctl_file_path, ctl_file_lines, cur_no,
                   dispatched, consumed, gen_calls, built>>

Next ==
    \/ set_ctl_file_path
    \/ SkipLine
    \/ LookupFails
    \/ DispatchCtlFileName
    \/ DispatchDset
    \/ DispatchOptions
    \/ DispatchTitle
    \/ DispatchUndef
    \/ DispatchDimension
    \/ DispatchTdef
    \/ DispatchVars
    \/ Finish

Spec == Init /\ [][Next]_vars


(***************************************************************************)
(* The record index                                                        *)
(***************************************************************************)
\* max(level_count, 1)
Width(v) == IF v.levels > 1 THEN v.levels ELSE 1

\* entries of the first j variables within one time step
RECURSIVE EntriesBefore(_, _)
EntriesBefore(catalogue, j) ==
    IF j = 0 THEN 0 ELSE EntriesBefore(catalogue, j - 1) + Width(catalogue[j])

\* the variable that owns offset r of a time step
OwnerOf(catalogue, r) ==
    CHOOSE j \in 1..Len(catalogue) :
        EntriesBefore(catalogue, j - 1) <= r /\ r < EntriesBefore(catalogue, j)

\* records is the enumeration time (outer), variable (middle), level (inner)
\* of the catalogue over the time values, entry k carrying record_index k
IsReferenceEnumeration(records, times, catalogue) ==
    LET perTime == EntriesBefore(catalogue, Len(catalogue))
    IN  /\ Len(records) = Len(times) * perTime
        /\ \A k \in 0..(Len(records) - 1) :
              LET j == OwnerOf(catalogue, k % perTime)
                  e == records[k + 1]
              IN  /\ e.record_index = k
                  /\ e.valid_time = times[(k \div perTime) + 1]
                  /\ e.name = catalogue[j].name
                  /\ e.units = catalogue[j].units
                  /\ e.description = catalogue[j].description
                  /\ e.level_type = IF catalogue[j].levels = 0 THEN "single" ELSE "multi"
                  /\ e.level_index = (k % perTime) - EntriesBefore(catalogue, j - 1)

\* the z axis holds a value for every level of every variable
ZLongEnough(doc) ==
    \A j \in 1..Len(doc.vars) :
        doc.vars[j].levels > 0 =>
            doc.zdef # None /\ Len(doc.zdef.values) >= doc.vars[j].levels

VarsDispatched ==
    {i \in 1..Len(dispatched) :
        Slice(ctl_file_lines[dispatched[i] + 1], 0,
              Find(ctl_file_lines[dispatched[i] + 1], " ")) = <<"v", "a", "r", "s">>}

LeadingToken(line) == IF Split(line) = <<>> THEN <<>> ELSE Split(line)[1]

\* the directives of the handler table
Keywords ==
    parser_mapper \ { <<"c", "t", "l", "_", "f", "i", "l", "e", "_", "n", "a", "m", "e">> }

AxisKeywords == { Xdef, Ydef, Zdef, <<"t", "d", "e", "f">> }

\* C4 as stated: a line whose leading token is xdef, ydef, zdef or tdef in any
\* letter case is routed to its handler; the dispatcher does not fail on it.
C4_AxisKeywordAnyCase ==
    ~(/\ pc = "error"
      /\ error = "KeyError"
      /\ Lower(LeadingToken(ctl_file_lines[cur_no + 1])) \in AxisKeywords)

\* C8 as stated: a line whose leading token is none of the nine directives is
\* skipped: the document stays as it is, no error is raised and the cursor
\* advances by one line.
C8_UnknownTokenSkipped ==
    [][(InLoop /\ LeadingToken(cur_line) \notin Keywords) =>
          /\ grads_ctl' = grads_ctl
          /\ pc' = "scan"
          /\ cur_no' = cur_no + 1]_vars

\* the positions in a sequence of positions
PositionsOf(seq) == {seq[i] : i \in 1..Len(seq)}

StrictlyIncreasing(seq) == \A i, j \in 1..Len(seq) : i < j => seq[i] < seq[j]

\* the first word the dispatcher would see on the line at position c
FirstWordAt(c) ==
    Slice(ctl_file_lines[c + 1], 0, Find(ctl_file_lines[c + 1], " "))

\* every line before the cursor was dispatched or consumed, none both ways and
\* none twice, and no position lies outside the descriptor
OnePass ==
    /\ StrictlyIncreasing(dispatched)
    /\ StrictlyIncreasing(consumed)
    /\ PositionsOf(dispatched) \cap PositionsOf(consumed) = {}
    /\ PositionsOf(dispatched) \cup PositionsOf(consumed) \subseteq 0..(Len(ctl_file_lines) - 1)
    /\ pc \in {"scan", "done"} =>
          /\ cur_no <= Len(ctl_file_lines)
          /\ PositionsOf(dispatched) \cup PositionsOf(consumed) = 0..(cur_no - 1)
    /\ pc = "done" => cur_no = Len(ctl_file_lines)

\* C9: the cursor only moves forward, so the scan ends within as many loop
\* iterations as there are lines; a line is dispatched or consumed by a
\* multi-line handler, never both and never twice; the lines before the cursor
\* are exactly the dispatched and the consumed ones, so the dispatcher resumes
\* right after the last consumed line.
C9_SingleForwardPass ==
    /\ []OnePass
    /\ [][pc = "scan" => (cur_no' > cur_no \/ pc' = "done" \/ pc' = "error")]_vars

\* a parse returned after the catalogue consumed a line that begins with the
\* title keyword, and the title handler never ran
C9_Witness ==
    /\ pc = "done"
    /\ \E i \in 1..Len(consumed) : FirstWordAt(consumed[i]) = <<"t", "i", "t", "l", "e">>
    /\ grads_ctl.title = <<>>
    /\ \E i \in 1..Len(dispatched) : \E j \in 1..Len(consumed) : dispatched[i] > consumed[j]

(***************************************************************************)
(* Dimensions and the builder's prerequisites                              *)
(***************************************************************************)
\* C6 as stated: a levels axis holds exactly as many values as its line
\* declares, whatever the number of inline values.
C6_LevelsCountValues ==
    \A d \in {grads_ctl.xdef, grads_ctl.ydef, grads_ctl.zdef} :
        (d # None /\ d.type = "levels") => Len(d.values) = d.count

\* C7 as stated: the builder fails whenever the time axis is absent, or a
\* variable has levels while the z axis is absent; so a builder run that
\* completed had a time axis, and a z axis if a variable has levels.
C7_BuilderNeedsAxes ==
    (pc # "error" /\ built # None) =>
        /\ built.tdef # None
        /\ (\E j \in 1..Len(grads_ctl.vars) : grads_ctl.vars[j].levels > 0)
              => built.zdef # None

(***************************************************************************)
(* The file-name heuristic                                                 *)
(***************************************************************************)
\* what follows the prefix of a name that starts with a known prefix
AfterPrefix(name) ==
    IF StartsWith(name, PostPrefix) THEN SliceFrom(name, Len(PostPrefix))
    ELSE SliceFrom(name, Len(ModelPrefix))

HasKnownPrefix(name) == StartsWith(name, PostPrefix) \/ StartsWith(name, ModelPrefix)

\* a known prefix followed by exactly ten digits, an underscore and three digits
IsGfsName(name) ==
    /\ HasKnownPrefix(name)
    /\ Len(AfterPrefix(name)) = 14
    /\ AllDigits(SubSeq(AfterPrefix(name), 1, 10))
    /\ AfterPrefix(name)[11] = "_"
    /\ AllDigits(SubSeq(AfterPrefix(name), 12, 14))

\* a known prefix followed by exactly fifteen digits
IsMesoName(name) ==
    /\ HasKnownPrefix(name)
    /\ Len(AfterPrefix(name)) = 15
    /\ AllDigits(AfterPrefix(name))

\* C5 as stated: the heuristic step never aborts the parse, and under a name
\* of neither known form it leaves start_time and forecast_time unset and the
\* rest of the document as it is.
C5_HeuristicNonFatal ==
    [][(pc = "scan" /\ cur_no >= Len(ctl_file_lines)) =>
          /\ pc' = "done"
          /\ (~IsGfsName(file_name) /\ ~IsMesoName(file_name)) =>
                grads_ctl' = grads_ctl]_vars

\* C10 as stated: under a name of the form prefix, ten digits, underscore,
\* DDD a returned document has forecast_time of DDD hours and the start_time
\* the ten digits encode.
C10_LeadHours ==
    (pc = "done" /\ IsGfsName(file_name)) =>
        /\ grads_ctl.forecast_time
             = Timedelta(60 * DecimalValue(SubSeq(AfterPrefix(file_name), 12, 14)))
        /\ grads_ctl.start_time = ToDatetimeYmdH(SubSeq(AfterPrefix(file_name), 1, 10))

=============================================================================
